---- MODULE Spec2Model ----
(***************************************************************************)
(* A model of SQLAir (src/dataPopulate.cpp): the query executor            *)
(* (selectQuery / updateQuery with per-row mutexes and the table's         *)
(* condition variable), the connection dispatcher (runServer /             *)
(* clientThread) and the table registry (loadAndGet, saveQuery).           *)
(***************************************************************************)
EXTENDS Integers, Sequences, FiniteSets, TLC

\* ------------------------------------------------------------------ bounds

\* Largest number of rows of the table a query runs on.
NumRows == 2

\* The query threads running concurrently on the table.
Threads == {1, 2}

\* The same with a third thread.
Trio == {1, 2, 3}

\* Largest maximum concurrency the server is started with.
MaxThr == 2

\* Number of connections that arrive at the server.
MaxClients == 3

Workers == 1..MaxClients

\* The threads that resolve tables concurrently.
Resolvers == {1, 2}

\* Largest number of loadAndGet calls one resolver makes.
MaxCalls == 2

\* ------------------------------------------------------------ the table

\* Header of the CSV the queries run on (CSV::getColumnNames()).
ColumnNames == <<"c1", "c2">>

\* Cell contents.
Values == {"a", "b"}

RowsOf == [1..Len(ColumnNames) -> Values]

\* Tables of at most NumRows rows.
Tables == UNION {[1..n -> RowsOf] : n \in 0..NumRows}

\* row.at(i) with the code's 0-based index.
At(row, i) == row[i + 1]

\* CSV::getColumnIndex(colName): the 0-based position of colName in the
\* header, or -1 here when the header has no such column (the CSV class
\* throws an exception then).
GetColumnIndex(colName) ==
  IF \E i \in 1..Len(ColumnNames) : ColumnNames[i] = colName
    THEN (CHOOSE i \in 1..Len(ColumnNames) : ColumnNames[i] = colName) - 1
    ELSE -1

\* SQLAirBase::matches(cell, cond, value): one comparison of a cell with
\* the literal of the where-clause.
Matches(cell, cond, value) ==
  IF cond = "=" THEN cell = value ELSE cell # value

\* std::to_string of a non-negative int.
Digit == <<"0", "1", "2", "3", "4", "5", "6", "7", "8", "9">>

RECURSIVE to_string(_)
to_string(n) ==
  IF n < 10 THEN Digit[n + 1]
  ELSE to_string(n \div 10) \o Digit[(n % 10) + 1]

\* operator<<(std::ostream&, const StrVec&): the names separated by tabs.
RECURSIVE StrVecText(_)
StrVecText(v) ==
  IF Len(v) = 0 THEN ""
  ELSE IF Len(v) = 1 THEN v[1]
  ELSE v[1] \o "\t" \o StrVecText(Tail(v))

\* ---------------------------------------------------------- the queries

\* "no where-clause": whereColIdx is -1 (the parser's marker).
NoWhere == [whereColIdx |-> -1, cond |-> "", value |-> ""]

Wheres ==
  { NoWhere,
    [whereColIdx |-> 0, cond |-> "=", value |-> "a"],
    [whereColIdx |-> 0, cond |-> "=", value |-> "b"],
    [whereColIdx |-> 1, cond |-> "<>", value |-> "b"] }

\* The parsed select statements handed to selectQuery: every row or the
\* rows with c1 = b, all columns or c2 and c1, with and without wait.
SelectQueries ==
  { [verb |-> "select", mustWait |-> w, colNames |-> s[1], values |-> <<>>,
     whereColIdx |-> s[2].whereColIdx, cond |-> s[2].cond,
     value |-> s[2].value] :
      w \in BOOLEAN,
      s \in {<< <<"*">>, NoWhere >>,
             << <<"c2", "c1">>, [whereColIdx |-> 0, cond |-> "=", value |-> "b"] >>} }

\* The parsed update statements handed to updateQuery.
UpdateQueries ==
  { [verb |-> "update", mustWait |-> w, colNames |-> s[1], values |-> s[2],
     whereColIdx |-> wh.whereColIdx, cond |-> wh.cond, value |-> wh.value] :
      w \in BOOLEAN,
      s \in {<< <<"c1">>, <<"b">> >>, << <<"c2", "c1">>, <<"b", "a">> >>},
      wh \in Wheres \ {[whereColIdx |-> 0, cond |-> "=", value |-> "b"]} }

Queries == SelectQueries \cup UpdateQueries

\* Parsed statements that name a column the header does not have, after
\* or before one it has: in the projection of a select, in the
\* set-list of an update.
InvalidColumnQueries ==
  { [verb |-> "select", mustWait |-> w, colNames |-> <<"c1", "zz">>,
     values |-> <<>>, whereColIdx |-> wh.whereColIdx, cond |-> wh.cond,
     value |-> wh.value] :
      w \in BOOLEAN,
      wh \in {NoWhere, [whereColIdx |-> 0, cond |-> "=", value |-> "b"]} }
  \cup
  { [verb |-> "update", mustWait |-> w, colNames |-> s[1], values |-> s[2],
     whereColIdx |-> wh.whereColIdx, cond |-> wh.cond, value |-> wh.value] :
      w \in BOOLEAN,
      s \in {<< <<"c1", "zz">>, <<"b", "a">> >>,
             << <<"zz", "c1">>, <<"a", "b">> >>},
      wh \in {NoWhere, [whereColIdx |-> 0, cond |-> "=", value |-> "a"]} }

\* A parsed select statement.
Select(names, where, wait) ==
  [verb |-> "select", mustWait |-> wait, colNames |-> names, values |-> <<>>,
   whereColIdx |-> where.whereColIdx, cond |-> where.cond,
   value |-> where.value]

\* A parsed update statement.
Update(names, vals, where, wait) ==
  [verb |-> "update", mustWait |-> wait, colNames |-> names, values |-> vals,
   whereColIdx |-> where.whereColIdx, cond |-> where.cond,
   value |-> where.value]

\* Three statements at once. Two that wait, a select for c1 = b and an
\* update of the rows with c2 <> b, in any combination, beside an update
\* without wait that sets c1 to b in every row or in the rows with
\* c1 = a. Or two updates that set both columns of every row, each to
\* its own value, beside a select of every row.
TrioQueries ==
  LET selectB == Select(<<"c2", "c1">>,
                        [whereColIdx |-> 0, cond |-> "=", value |-> "b"], TRUE)
      updateNotB == Update(<<"c2", "c1">>, <<"b", "a">>,
                        [whereColIdx |-> 1, cond |-> "<>", value |-> "b"], TRUE)
      setA == Update(<<"c1", "c2">>, <<"a", "a">>, NoWhere, FALSE)
      setB == Update(<<"c2", "c1">>, <<"b", "b">>, NoWhere, FALSE)
  IN
  { <<w[1], w[2], Update(<<"c1">>, <<"b">>, wh, FALSE)>> :
      w \in {<<selectB, selectB>>, <<selectB, updateNotB>>,
             <<updateNotB, updateNotB>>},
      wh \in {NoWhere, [whereColIdx |-> 0, cond |-> "=", value |-> "a"]} }
  \cup
  { <<setA, setB, Select(<<"*">>, NoWhere, FALSE)>> }

\* The queries in some fixed order: the threads are interchangeable, and
\* the initial states assign them queries in this order only.
RECURSIVE SetToSeq(_)
SetToSeq(S) ==
  IF S = {} THEN <<>>
  ELSE LET x == CHOOSE y \in S : TRUE IN <<x>> \o SetToSeq(S \ {x})

QueryList == SetToSeq(Queries)

QueryIndex(q) == CHOOSE i \in 1..Len(QueryList) : QueryList[i] = q

\* ------------------------------------------------- query executor: state

VARIABLES
  csv,          \* the table: its rows, each a sequence of cells
  csv0,         \* the table as it was before any query ran (history)
  rowMutex,     \* rowMutex[i]: the holders of row i's mutex (none or one)
  csvMutex,     \* the holders of csv.csvMutex (none or one)
  csvCondVar,   \* the threads suspended in csv.csvCondVar.wait
  query,        \* query[t]: the parsed statement thread t executes
  pc,           \* pc[t]: where thread t is in selectQuery / updateQuery
  colNames,     \* colNames[t]: the callee's copy of the column list
  mustWait,     \* mustWait[t]: the callee's copy of the wait flag
  rowCount,     \* rowCount[t]
  rowText,      \* rowText[t]
  it,           \* it[t]: the row the scan of thread t is at (1-based)
  inLoop,       \* inLoop[t]: the scan runs inside the while loop's body
  os,           \* os[t]: what thread t has written to its output stream
  col,          \* col[t]: the set-columns t has written in the row it holds
  before,       \* before[t]: the row t holds as it was when t locked it
  seen,         \* seen[t][i]: row i as t's select last read it (history)
  lastWriter    \* lastWriter[i]: the update that wrote row i last (history)

qvars == <<csv, csv0, rowMutex, csvMutex, csvCondVar, query, pc, colNames,
           mustWait, rowCount, rowText, it, inLoop, os, col, before, seen,
           lastWriter>>

\* ------------------------------------------------------ dispatcher: state

VARIABLES
  maxThr,       \* the maximum concurrency runServer was started with
  numThreads,   \* SQLAir::numThreads, the in-flight counter
  serverMutex,  \* the holders of SQLAir::serverMutex (none or the server)
  thrCond,      \* the threads suspended in SQLAir::thrCond.wait
  spc,          \* where runServer is
  accepted,     \* the number of connections accepted so far
  wpc,          \* wpc[w]: where the worker of connection w is
  request,      \* request[w]: what the worker read from its connection
  oss,          \* oss[w]: the text the worker's query produced
  wos,          \* wos[w]: what the worker wrote to its connection
  raised,       \* raised[w]: the message of the exception process threw
  decrements,   \* decrements[w]: how often worker w decremented (history)
  notifies,     \* notifies[w]: how often worker w signalled (history)
  terminated    \* std::terminate was called: the process is gone

svars == <<maxThr, numThreads, serverMutex, thrCond, spc, accepted, wpc,
           request, oss, wos, raised, decrements, notifies, terminated>>

\* -------------------------------------------------------- registry: state

VARIABLES
  recentCSV,       \* the most recently used identifier
  inMemoryCSV,     \* the loaded tables, by identifier
  recentCSVMutex,  \* the holders of recentCSVMutex (none or one)
  rpc,             \* rpc[t]: where resolver t is in loadAndGet
  fileOrURL,       \* fileOrURL[t]: loadAndGet's parameter (a copy)
  loaded,          \* loaded[t]: the local CSV the load filled
  calls,           \* calls[t]: the number of calls t has made
  entry,           \* entry[t]: the registry and the history when t's call began
  ret,             \* ret[t]: the key of the entry t's call returned
  loads,           \* loads[t]: the loads t's call has performed (history)
  lastDone,        \* the entry the call that ended last returned for its
                   \* argument; "" when it threw, when its argument was
                   \* empty, or when another call ran during it (history)
  disturbed,       \* disturbed[t]: another resolver was inside loadAndGet
                   \* when t's call began, or has called it since
  inserter,        \* inserter[id]: the resolver that inserted id last
  written,         \* written[id]: what the last update of id wrote (history)
  touch            \* the access to a table's rows the last step made

rvars == <<recentCSV, inMemoryCSV, recentCSVMutex, rpc, fileOrURL, loaded,
           calls, entry, ret, loads, lastDone, disturbed, inserter, written,
           touch>>

vars == <<qvars, svars, rvars>>

\* ---------------------------------------------- query executor: helpers

\* A match that ignores the where-clause.
IsMatchAlways(q, row) == TRUE

\* The row's match against the where-clause (lines 138-139, 165-168):
\* without a where-clause the matcher is not called.
IsMatch(q, row) ==
  IF q.whereColIdx = -1 THEN TRUE
  ELSE Matches(At(row, q.whereColIdx), q.cond, q.value)

\* Every name of the list is a column of the table: getColumnIndex
\* throws on the first that is not.
AllColumnsKnown(names) ==
  \A i \in 1..Len(names) : GetColumnIndex(names[i]) # -1

\* The inner loop of selectRowProcess (lines 142-150): the projected
\* cells appended with the delimiter that is empty before the first.
RECURSIVE ProjectCells(_, _, _)
ProjectCells(row, names, delim) ==
  IF Len(names) = 0 THEN "\n"
  ELSE delim \o At(row, GetColumnIndex(Head(names)))
             \o ProjectCells(row, Tail(names), "\t")

\* One assignment of the inner loop of updateRowProcess (line 171).
SetCell(row, name, value) ==
  [row EXCEPT ![GetColumnIndex(name) + 1] = value]

\* A mutex that can be locked while another thread holds it.
LockableAlways(holders) == TRUE

\* std::mutex::lock returns only when no thread holds the mutex.
Lockable(holders) == holders = {}

\* A loop that goes on whenever the count is zero, whatever the flag.
WhileCondIgnoresFlag(count, wait) == count = 0

\* The condition of the while loops (lines 195, 219).
WhileCond(count, wait) == count = 0 /\ wait

\* A flag cleared after the first re-scan, whatever it found.
FlagClearedAlways(count, wait) == FALSE

\* The flag after lines 201-203 / 226-228.
FlagAfterRescan(count, wait) == IF count # 0 THEN FALSE ELSE wait

\* A guard that leaves the row locked.
UnlockMissing(t, holders) == holders

\* The Guard of a row is destroyed at the end of the loop's body (lines
\* 153, 175): the row's mutex is released.
Unlock(t, holders) == holders \ {t}

\* A notification that wakes one of the suspended threads.
NotifyFirst(waiters) ==
  IF waiters = {} THEN {} ELSE {CHOOSE t \in waiters : TRUE}

\* The threads notify_all wakes (line 231): every suspended one.
NotifyAll(waiters) == waiters

\* A header written whatever the count.
EmitsHeaderAlways(count) == TRUE

\* The condition of the header line (line 205).
EmitsHeader(count) == count # 0

\* The condition of the broadcast (line 230).
Broadcasts(count) == count # 0

\* ---------------------------------------------- query executor: actions

\* selectQuery lines 184-191, updateQuery line 214: the wildcard is
\* expanded, the count and the text start empty, the first scan begins.
Start(t) ==
  /\ pc[t] = "start"
  /\ colNames' = [colNames EXCEPT ![t] =
        IF query[t].verb = "select" /\ colNames[t][1] = "*"
          THEN ColumnNames ELSE colNames[t]]
  /\ rowCount' = [rowCount EXCEPT ![t] = 0]
  /\ rowText' = [rowText EXCEPT ![t] = ""]
  /\ it' = [it EXCEPT ![t] = 1]
  /\ pc' = [pc EXCEPT ![t] = "scan"]
  /\ UNCHANGED <<csv, csv0, rowMutex, csvMutex, csvCondVar, query, mustWait,
                 inLoop, os>>
  /\ UNCHANGED <<col, before, seen, lastWriter>>
  /\ UNCHANGED <<svars, rvars>>

\* Guard g(row.rowMutex) (lines 135, 163): blocks while the mutex is held.
LockRow(t) ==
  /\ pc[t] = "scan"
  /\ it[t] <= Len(csv)
  /\ Lockable(rowMutex[it[t]])
  /\ rowMutex' = [rowMutex EXCEPT ![it[t]] = {t}]
  /\ before' = [before EXCEPT ![t] = csv[it[t]]]
  /\ pc' = [pc EXCEPT ![t] = "row"]
  /\ UNCHANGED <<csv, csv0, csvMutex, csvCondVar, query, colNames, mustWait,
                 rowCount, rowText, it, inLoop, os, col, seen, lastWriter>>
  /\ UNCHANGED <<svars, rvars>>

\* An exception leaves the query: the guards of the row and, inside the
\* while loop, of the table mutex are released by the unwinding.
Unwind(t, holders) == holders \ {t}

\* selectRowProcess, the body of the loop for one row (lines 138-153).
SelectRow(t) ==
  LET q == query[t]
      i == it[t]
      isMatch == IsMatch(q, csv[i])
      throws == isMatch /\ ~AllColumnsKnown(colNames[t])
  IN
  /\ pc[t] = "row"
  /\ q.verb = "select"
  /\ rowMutex' = [rowMutex EXCEPT ![i] = Unlock(t, @)]
  /\ before' = [before EXCEPT ![t] = <<>>]
  /\ IF throws
       THEN /\ pc' = [pc EXCEPT ![t] = "threw"]
            /\ csvMutex' = Unwind(t, csvMutex)
            /\ UNCHANGED <<rowText, rowCount, it, seen>>
       ELSE /\ rowText' = [rowText EXCEPT ![t] =
                 IF isMatch THEN @ \o ProjectCells(csv[i], colNames[t], "")
                 ELSE @]
            /\ rowCount' = [rowCount EXCEPT ![t] =
                 IF isMatch THEN @ + 1 ELSE @]
            /\ seen' = [seen EXCEPT ![t][i] = IF isMatch THEN csv[i] ELSE @]
            /\ it' = [it EXCEPT ![t] = i + 1]
            /\ pc' = [pc EXCEPT ![t] = "scan"]
            /\ UNCHANGED csvMutex
  /\ UNCHANGED <<csv, csv0, csvCondVar, query, colNames, mustWait, inLoop, os,
                 col, lastWriter>>
  /\ UNCHANGED <<svars, rvars>>

\* updateRowProcess, the body of the loop for one row (lines 163-175),
\* one step for each assignment of the inner loop: the first step also
\* evaluates the where-clause, the last one counts the row and leaves
\* the body, releasing the guard. An unknown column throws out of the
\* inner loop after the assignments made before it.
UpdateRow(t) ==
  LET q == query[t]
      i == it[t]
      k == col[t] + 1
      isMatch == IF col[t] = 0 THEN IsMatch(q, csv[i]) ELSE TRUE
      throws == isMatch /\ GetColumnIndex(colNames[t][k]) = -1
      leaves == ~isMatch \/ k = Len(colNames[t])
  IN
  /\ pc[t] = "row"
  /\ q.verb = "update"
  /\ csv' = [csv EXCEPT ![i] =
        IF isMatch /\ ~throws THEN SetCell(@, colNames[t][k], q.values[k])
        ELSE @]
  /\ lastWriter' = [lastWriter EXCEPT ![i] =
        IF isMatch /\ col[t] = 0 THEN {t} ELSE @]
  /\ IF throws
       THEN /\ pc' = [pc EXCEPT ![t] = "threw"]
            /\ csvMutex' = Unwind(t, csvMutex)
            /\ rowMutex' = [rowMutex EXCEPT ![i] = Unlock(t, @)]
            /\ col' = [col EXCEPT ![t] = 0]
            /\ before' = [before EXCEPT ![t] = <<>>]
            /\ UNCHANGED <<rowCount, it>>
       ELSE IF leaves
       THEN /\ rowCount' = [rowCount EXCEPT ![t] =
                 IF isMatch THEN @ + 1 ELSE @]
            /\ it' = [it EXCEPT ![t] = i + 1]
            /\ pc' = [pc EXCEPT ![t] = "scan"]
            /\ rowMutex' = [rowMutex EXCEPT ![i] = Unlock(t, @)]
            /\ col' = [col EXCEPT ![t] = 0]
            /\ before' = [before EXCEPT ![t] = <<>>]
            /\ UNCHANGED csvMutex
       ELSE /\ col' = [col EXCEPT ![t] = k]
            /\ UNCHANGED <<pc, csvMutex, rowMutex, rowCount, it, before>>
  /\ UNCHANGED <<csv0, csvCondVar, query, colNames, mustWait, rowText,
                 inLoop, os, seen>>
  /\ UNCHANGED <<svars, rvars>>

\* The scan is past the last row and returns. Inside the while loop
\* (lines 201-204, 226-229) the flag is cleared when a row matched and
\* the unique_lock is destroyed; then the loop's condition is evaluated.
ScanReturn(t) ==
  LET flag == IF inLoop[t] THEN FlagAfterRescan(rowCount[t], mustWait[t])
              ELSE mustWait[t]
  IN
  /\ pc[t] = "scan"
  /\ it[t] > Len(csv)
  /\ mustWait' = [mustWait EXCEPT ![t] = flag]
  /\ csvMutex' = IF inLoop[t] THEN csvMutex \ {t} ELSE csvMutex
  /\ inLoop' = [inLoop EXCEPT ![t] = FALSE]
  /\ pc' = [pc EXCEPT ![t] =
        IF WhileCond(rowCount[t], flag) THEN "lock_csv" ELSE "emit"]
  /\ UNCHANGED <<csv, csv0, rowMutex, csvCondVar, query, colNames, rowCount,
                 rowText, it, os>>
  /\ UNCHANGED <<col, before, seen, lastWriter>>
  /\ UNCHANGED <<svars, rvars>>

\* std::unique_lock<std::mutex> lock(csv.csvMutex) (lines 197, 221).
LockCsv(t) ==
  /\ pc[t] = "lock_csv"
  /\ csvMutex = {}
  /\ csvMutex' = {t}
  /\ pc' = [pc EXCEPT ![t] = "wait"]
  /\ UNCHANGED <<csv, csv0, rowMutex, csvCondVar, query, colNames, mustWait,
                 rowCount, rowText, it, inLoop, os>>
  /\ UNCHANGED <<col, before, seen, lastWriter>>
  /\ UNCHANGED <<svars, rvars>>

\* csv.csvCondVar.wait(lock) (lines 198, 222): the mutex is released and
\* the thread suspended in one step.
Wait(t) ==
  /\ pc[t] = "wait"
  /\ csvMutex' = csvMutex \ {t}
  /\ csvCondVar' = csvCondVar \cup {t}
  /\ pc' = [pc EXCEPT ![t] = "suspended"]
  /\ UNCHANGED <<csv, csv0, rowMutex, query, colNames, mustWait, rowCount,
                 rowText, it, inLoop, os>>
  /\ UNCHANGED <<col, before, seen, lastWriter>>
  /\ UNCHANGED <<svars, rvars>>

\* std::condition_variable::wait may return without a notification.
SpuriousWake(t) ==
  /\ pc[t] = "suspended"
  /\ csvCondVar' = csvCondVar \ {t}
  /\ pc' = [pc EXCEPT ![t] = "relock"]
  /\ UNCHANGED <<csv, csv0, rowMutex, csvMutex, query, colNames, mustWait,
                 rowCount, rowText, it, inLoop, os>>
  /\ UNCHANGED <<col, before, seen, lastWriter>>
  /\ UNCHANGED <<svars, rvars>>

\* wait re-acquires the mutex before it returns; the re-scan follows
\* (lines 199, 223) with the mutex held.
Relock(t) ==
  /\ pc[t] = "relock"
  /\ csvMutex = {}
  /\ csvMutex' = {t}
  /\ it' = [it EXCEPT ![t] = 1]
  /\ inLoop' = [inLoop EXCEPT ![t] = TRUE]
  /\ pc' = [pc EXCEPT ![t] = "scan"]
  /\ UNCHANGED <<csv, csv0, rowMutex, csvCondVar, query, colNames, mustWait,
                 rowCount, rowText, os>>
  /\ UNCHANGED <<col, before, seen, lastWriter>>
  /\ UNCHANGED <<svars, rvars>>

\* selectQuery lines 205-206: the header when a row matched, the rows,
\* the count line.
SelectEmit(t) ==
  /\ pc[t] = "emit"
  /\ query[t].verb = "select"
  /\ os' = [os EXCEPT ![t] =
        (IF EmitsHeader(rowCount[t])
           THEN StrVecText(colNames[t]) \o "\n" ELSE "")
        \o rowText[t]
        \o to_string(rowCount[t]) \o " row(s) selected." \o "\n"]
  /\ pc' = [pc EXCEPT ![t] = "done"]
  /\ UNCHANGED <<csv, csv0, rowMutex, csvMutex, csvCondVar, query, colNames,
                 mustWait, rowCount, rowText, it, inLoop>>
  /\ UNCHANGED <<col, before, seen, lastWriter>>
  /\ UNCHANGED <<svars, rvars>>

\* updateQuery lines 230-233: the broadcast when a row was updated, the
\* count line.
UpdateEmit(t) ==
  LET woken == IF Broadcasts(rowCount[t]) THEN NotifyAll(csvCondVar) ELSE {}
  IN
  /\ pc[t] = "emit"
  /\ query[t].verb = "update"
  /\ csvCondVar' = csvCondVar \ woken
  /\ os' = [os EXCEPT ![t] =
        to_string(rowCount[t]) \o " row(s) updated." \o "\n"]
  /\ pc' = [u \in DOMAIN pc |->
        IF u = t THEN "done" ELSE IF u \in woken THEN "relock" ELSE pc[u]]
  /\ UNCHANGED <<csv, csv0, rowMutex, csvMutex, query, colNames, mustWait,
                 rowCount, rowText, it, inLoop>>
  /\ UNCHANGED <<col, before, seen, lastWriter>>
  /\ UNCHANGED <<svars, rvars>>

\* One step of thread t's query.
QueryStep(t) ==
  \/ Start(t)
  \/ LockRow(t)
  \/ SelectRow(t)
  \/ UpdateRow(t)
  \/ ScanReturn(t)
  \/ LockCsv(t)
  \/ Wait(t)
  \/ Relock(t)
  \/ SelectEmit(t)
  \/ UpdateEmit(t)

\* ------------------------------------------------------------ dispatcher

\* The name of the thread that runs runServer.
Server == "server"

\* The predicate of the admission wait (line 293).
Admits(n, m) == n <= m

\* HTTPRespHeader (lines 122-126) with the length filled in (267-268).
HTTPRespHeader(length) ==
  "HTTP/1.1 200 OK\r\n" \o "Server: SimpleServer\r\n"
  \o "Content-Length: " \o to_string(length) \o "\r\n"
  \o "Connection: Close\r\n" \o "Content-Type: text/html\r\n\r\n"

\* What the request line of a connection asks for (lines 253, 270): a
\* query, a file, or nothing (an empty path).
RequestKinds == {"query", "file", "none"}

\* The messages of the exceptions a query raises: insertQuery (line 239),
\* deleteQuery (line 245), loadFromURL (line 319).
Exceptions ==
  { "insert is not yet implemented.",
    "delete is not yet implemented.",
    "Unable to connect to host at port 80" }

\* What a query that succeeds writes to its stream.
QueryOutputs == { "0 row(s) selected.\n", "1 row(s) updated.\n" }

\* A handler that misses the exceptions of the unsupported statements.
CatchesAllButNotImplemented(exp) ==
  exp \notin {"insert is not yet implemented.", "delete is not yet implemented."}

\* The handler of line 263 catches every std::exception.
Catches(exp) == TRUE

\* The response of line 264.
ErrorText(exp) == "Error: " \o exp \o "\n"

\* runServer after line 289: the mutex is held, no connection accepted.
ServerInit ==
  /\ maxThr \in 1..MaxThr
  /\ numThreads = 0
  /\ serverMutex = {Server}
  /\ thrCond = {}
  /\ spc = "test"
  /\ accepted = 0
  /\ wpc = [w \in Workers |-> "idle"]
  /\ request = [w \in Workers |-> "none"]
  /\ oss = [w \in Workers |-> ""]
  /\ wos = [w \in Workers |-> ""]
  /\ raised = [w \in Workers |-> ""]
  /\ decrements = [w \in Workers |-> 0]
  /\ notifies = [w \in Workers |-> 0]
  /\ terminated = FALSE

\* thrCond.wait(lock, pred), lines 292-293: the predicate is evaluated
\* with the mutex held; when it is false the thread goes on to wait.
GateTest ==
  /\ ~terminated
  /\ spc = "test"
  /\ spc' = IF Admits(numThreads, maxThr) THEN "accept" ELSE "sleep"
  /\ UNCHANGED <<maxThr, numThreads, serverMutex, thrCond, accepted, wpc,
                 request, oss, wos, raised, decrements, notifies, terminated>>
  /\ UNCHANGED <<qvars, rvars>>

\* wait(lock): the mutex is released and the thread suspended in one step.
GateSuspend ==
  /\ ~terminated
  /\ spc = "sleep"
  /\ serverMutex' = {}
  /\ thrCond' = thrCond \cup {Server}
  /\ spc' = "suspended"
  /\ UNCHANGED <<maxThr, numThreads, accepted, wpc, request, oss, wos,
                 raised, decrements, notifies, terminated>>
  /\ UNCHANGED <<qvars, rvars>>

\* std::condition_variable::wait may return without a notification.
GateSpuriousWake ==
  /\ ~terminated
  /\ spc = "suspended"
  /\ thrCond' = thrCond \ {Server}
  /\ spc' = "woken"
  /\ UNCHANGED <<maxThr, numThreads, serverMutex, accepted, wpc, request,
                 oss, wos, raised, decrements, notifies, terminated>>
  /\ UNCHANGED <<qvars, rvars>>

\* wait re-acquires the mutex, then the predicate is evaluated again.
GateRelock ==
  /\ ~terminated
  /\ spc = "woken"
  /\ serverMutex = {}
  /\ serverMutex' = {Server}
  /\ spc' = "test"
  /\ UNCHANGED <<maxThr, numThreads, thrCond, accepted, wpc, request, oss,
                 wos, raised, decrements, notifies, terminated>>
  /\ UNCHANGED <<qvars, rvars>>

\* Lines 298-304: a client connects and its detached thread is started.
Accept ==
  /\ ~terminated
  /\ spc = "accept"
  /\ accepted < MaxClients
  /\ accepted' = accepted + 1
  /\ wpc' = [wpc EXCEPT ![accepted + 1] = "read"]
  /\ spc' = "incr"
  /\ UNCHANGED <<maxThr, numThreads, serverMutex, thrCond, request, oss,
                 wos, raised, decrements, notifies, terminated>>
  /\ UNCHANGED <<qvars, rvars>>

\* Line 306.
Increment ==
  /\ ~terminated
  /\ spc = "incr"
  /\ numThreads' = numThreads + 1
  /\ spc' = "test"
  /\ UNCHANGED <<maxThr, serverMutex, thrCond, accepted, wpc, request, oss,
                 wos, raised, decrements, notifies, terminated>>
  /\ UNCHANGED <<qvars, rvars>>

\* clientThread lines 250-253, 270: the request line is read.
ReadRequest(w) ==
  /\ ~terminated
  /\ wpc[w] = "read"
  /\ \E kind \in RequestKinds :
       /\ request' = [request EXCEPT ![w] = kind]
       /\ wpc' = [wpc EXCEPT ![w] =
             IF kind = "query" THEN "process"
             ELSE IF kind = "file" THEN "file" ELSE "decr"]
  /\ UNCHANGED <<maxThr, numThreads, serverMutex, thrCond, spc, accepted,
                 oss, wos, raised, decrements, notifies, terminated>>
  /\ UNCHANGED <<qvars, rvars>>

\* Lines 261-269, the query returns: its text is sent after the header.
ProcessReturns(w) ==
  /\ ~terminated
  /\ wpc[w] = "process"
  /\ \E text \in QueryOutputs :
       /\ oss' = [oss EXCEPT ![w] = text]
       /\ wos' = [wos EXCEPT ![w] = HTTPRespHeader(Len(text)) \o text]
  /\ wpc' = [wpc EXCEPT ![w] = "decr"]
  /\ UNCHANGED <<maxThr, numThreads, serverMutex, thrCond, spc, accepted,
                 request, raised, decrements, notifies, terminated>>
  /\ UNCHANGED <<qvars, rvars>>

\* Lines 261-269, the query throws: the handler writes the error line,
\* which is sent after the header; an exception no handler catches ends
\* the process (std::terminate).
ProcessThrows(w) ==
  /\ ~terminated
  /\ wpc[w] = "process"
  /\ \E exp \in Exceptions :
       /\ raised' = [raised EXCEPT ![w] = exp]
       /\ IF Catches(exp)
            THEN /\ oss' = [oss EXCEPT ![w] = ErrorText(exp)]
                 /\ wos' = [wos EXCEPT ![w] =
                       HTTPRespHeader(Len(ErrorText(exp))) \o ErrorText(exp)]
                 /\ wpc' = [wpc EXCEPT ![w] = "decr"]
                 /\ UNCHANGED terminated
            ELSE /\ terminated' = TRUE
                 /\ UNCHANGED <<oss, wos, wpc>>
  /\ UNCHANGED <<maxThr, numThreads, serverMutex, thrCond, spc, accepted,
                 request, decrements, notifies>>
  /\ UNCHANGED <<qvars, rvars>>

\* Lines 270-279: the file is sent.
SendFile(w) ==
  /\ ~terminated
  /\ wpc[w] = "file"
  /\ wos' = [wos EXCEPT ![w] = "file"]
  /\ wpc' = [wpc EXCEPT ![w] = "decr"]
  /\ UNCHANGED <<maxThr, numThreads, serverMutex, thrCond, spc, accepted,
                 request, oss, raised, decrements, notifies, terminated>>
  /\ UNCHANGED <<qvars, rvars>>

\* Line 281: the mutex is not taken.
Decrement(w) ==
  /\ ~terminated
  /\ wpc[w] = "decr"
  /\ numThreads' = numThreads - 1
  /\ decrements' = [decrements EXCEPT ![w] = @ + 1]
  /\ wpc' = [wpc EXCEPT ![w] = "notify"]
  /\ UNCHANGED <<maxThr, serverMutex, thrCond, spc, accepted, request, oss,
                 wos, raised, notifies, terminated>>
  /\ UNCHANGED <<qvars, rvars>>

\* The threads notify_one wakes (line 282): one of the suspended ones,
\* none when no thread is suspended.
NotifyOne(waiters) ==
  IF waiters = {} THEN {} ELSE {CHOOSE x \in waiters : TRUE}

\* Line 282: the mutex is not taken.
Notify(w) ==
  LET woken == NotifyOne(thrCond) IN
  /\ ~terminated
  /\ wpc[w] = "notify"
  /\ thrCond' = thrCond \ woken
  /\ spc' = IF Server \in woken THEN "woken" ELSE spc
  /\ notifies' = [notifies EXCEPT ![w] = @ + 1]
  /\ wpc' = [wpc EXCEPT ![w] = "done"]
  /\ UNCHANGED <<maxThr, numThreads, serverMutex, accepted, request, oss,
                 wos, raised, decrements, terminated>>
  /\ UNCHANGED <<qvars, rvars>>

\* One step of runServer.
ServerStep ==
  \/ GateTest
  \/ GateSuspend
  \/ GateRelock
  \/ Accept
  \/ Increment

\* One step of the worker of connection w.
WorkerStep(w) ==
  \/ ReadRequest(w)
  \/ ProcessReturns(w)
  \/ ProcessThrows(w)
  \/ SendFile(w)
  \/ Decrement(w)
  \/ Notify(w)

\* -------------------------------------------------------------- registry

\* The identifiers queries name: a local file and an URL.
Identifiers == {"a.csv", "http://h/b.csv"}

\* What a source holds when it is read.
Contents == {"d1", "d2"}

\* fileOrURL.find("http://") == 0 (line 357).
IsURL(id) == id \in {"http://h/b.csv"}

\* The ways a load ends (lines 357-368): loadFromURL throws when the
\* connection fails (line 319) or the status is not 200 (line 330);
\* CSV::load throws on a stream it cannot read. A file with an empty
\* name cannot be opened.
LoadOutcomes(id) ==
  IF id = "" THEN {"unreadable"}
  ELSE IF IsURL(id) THEN {"ok", "no connection", "status not 200", "unreadable"}
  ELSE {"ok", "unreadable"}

\* The identifier the call works with (line 346).
Substituted(id, recent) == IF id = "" THEN recent ELSE id

\* A lookup that does not record the identifier.
RecentNotRecorded(id, recent) == recent

\* The most recently used identifier after line 348.
RecentAfterLookup(id, recent) == Substituted(id, recent)

\* What an updateQuery leaves in the rows it changed.
Updated == "u"

\* What a call that ends leaves in lastDone: the key of the entry it
\* returned when that is the argument it was called with and no other
\* call ran during it.
Done(arg, key, overlapped) == IF arg = key /\ ~overlapped THEN key ELSE ""

\* A step that reads and writes no row.
NoTouch == [op |-> "none", id |-> "", shared |-> FALSE, locks |-> {}]

\* The mutexes the thread holds where the loaded table is moved into the
\* entry (lines 374-376): the guard of the registry.
LocksAtMove == {"recentCSVMutex"}

\* The mutexes the thread holds where updateRowProcess writes a cell
\* (lines 163, 171): the guard of the row.
LocksAtUpdate == {"rowMutex"}

\* The mutexes the thread holds where saveQuery writes the table out
\* (line 389): none.
LocksAtSave == {}

\* An insertion that keeps the entry the map already has.
Emplaced(map, id, data) ==
  [k \in DOMAIN map \cup {id} |-> IF k \in DOMAIN map THEN map[k] ELSE data]

\* inMemoryCSV[fileOrURL].move(csv) (line 376): operator[] creates the
\* entry when it is missing, and the entry takes the loaded data.
Moved(map, id, data) ==
  [k \in DOMAIN map \cup {id} |-> IF k = id THEN data ELSE map[k]]

\* The resolver is not inside loadAndGet.
Outside(t) == rpc[t] \in {"idle", "returned", "threw"}

\* No table has been resolved yet.
RegistryInit ==
  /\ recentCSV = ""
  /\ inMemoryCSV = [id \in {} |-> ""]
  /\ recentCSVMutex = {}
  /\ rpc = [t \in Resolvers |-> "idle"]
  /\ fileOrURL = [t \in Resolvers |-> ""]
  /\ loaded = [t \in Resolvers |-> ""]
  /\ calls = [t \in Resolvers |-> 0]
  /\ entry = [t \in Resolvers |->
       [recentCSV |-> "", inMemoryCSV |-> [id \in {} |-> ""], arg |-> "",
        last |-> ""]]
  /\ ret = [t \in Resolvers |-> ""]
  /\ loads = [t \in Resolvers |-> 0]
  /\ lastDone = ""
  /\ disturbed = [t \in Resolvers |-> FALSE]
  /\ inserter = [id \in {} |-> ""]
  /\ written = [id \in Identifiers |-> ""]
  /\ touch = NoTouch

\* A resolver calls loadAndGet(id); the registry as it is now is
\* remembered for the call.
Call(t, id) ==
  /\ Outside(t)
  /\ calls[t] < MaxCalls
  /\ calls' = [calls EXCEPT ![t] = @ + 1]
  /\ fileOrURL' = [fileOrURL EXCEPT ![t] = id]
  /\ entry' = [entry EXCEPT ![t] =
        [recentCSV |-> recentCSV, inMemoryCSV |-> inMemoryCSV, arg |-> id,
         last |-> lastDone]]
  /\ disturbed' = [u \in Resolvers |->
        IF u = t THEN \E v \in Resolvers \ {t} : ~Outside(v) ELSE TRUE]
  /\ ret' = [ret EXCEPT ![t] = ""]
  /\ loads' = [loads EXCEPT ![t] = 0]
  /\ rpc' = [rpc EXCEPT ![t] = "guard1"]
  /\ touch' = NoTouch
  /\ UNCHANGED <<recentCSV, inMemoryCSV, recentCSVMutex, loaded, lastDone,
                 inserter, written>>
  /\ UNCHANGED <<qvars, svars>>

\* Line 344.
LockLookup(t) ==
  /\ rpc[t] = "guard1"
  /\ recentCSVMutex = {}
  /\ recentCSVMutex' = {t}
  /\ rpc' = [rpc EXCEPT ![t] = "lookup"]
  /\ touch' = NoTouch
  /\ UNCHANGED <<recentCSV, inMemoryCSV, fileOrURL, loaded, calls, entry,
                 ret, loads, lastDone, disturbed, inserter, written>>
  /\ UNCHANGED <<qvars, svars>>

\* Lines 346-353: the identifier is substituted and recorded as the most
\* recent one, then looked up; the guard is released.
Lookup(t) ==
  LET id == Substituted(fileOrURL[t], recentCSV)
      found == id \in DOMAIN inMemoryCSV
  IN
  /\ rpc[t] = "lookup"
  /\ fileOrURL' = [fileOrURL EXCEPT ![t] = id]
  /\ recentCSV' = RecentAfterLookup(fileOrURL[t], recentCSV)
  /\ rpc' = [rpc EXCEPT ![t] = IF found THEN "returned" ELSE "load"]
  /\ ret' = [ret EXCEPT ![t] = IF found THEN id ELSE @]
  /\ lastDone' = IF found THEN Done(entry[t].arg, id, disturbed[t])
                 ELSE lastDone
  /\ recentCSVMutex' = {}
  /\ touch' = NoTouch
  /\ UNCHANGED <<inMemoryCSV, loaded, calls, entry, loads, disturbed,
                 inserter, written>>
  /\ UNCHANGED <<qvars, svars>>

\* Lines 356-368, the load succeeds: the local CSV holds the data.
LoadReturns(t) ==
  /\ rpc[t] = "load"
  /\ "ok" \in LoadOutcomes(fileOrURL[t])
  /\ \E data \in Contents : loaded' = [loaded EXCEPT ![t] = data]
  /\ loads' = [loads EXCEPT ![t] = @ + 1]
  /\ rpc' = [rpc EXCEPT ![t] = "guard2"]
  /\ touch' = NoTouch
  /\ UNCHANGED <<recentCSV, inMemoryCSV, recentCSVMutex, fileOrURL, calls,
                 entry, ret, lastDone, disturbed, inserter, written>>
  /\ UNCHANGED <<qvars, svars>>

\* Lines 356-368, the load throws: the exception leaves loadAndGet.
LoadThrows(t) ==
  /\ rpc[t] = "load"
  /\ LoadOutcomes(fileOrURL[t]) \ {"ok"} # {}
  /\ loads' = [loads EXCEPT ![t] = @ + 1]
  /\ lastDone' = ""
  /\ rpc' = [rpc EXCEPT ![t] = "threw"]
  /\ touch' = NoTouch
  /\ UNCHANGED <<recentCSV, inMemoryCSV, recentCSVMutex, fileOrURL, loaded,
                 calls, entry, ret, disturbed, inserter, written>>
  /\ UNCHANGED <<qvars, svars>>

\* Line 374.
LockInsert(t) ==
  /\ rpc[t] = "guard2"
  /\ recentCSVMutex = {}
  /\ recentCSVMutex' = {t}
  /\ rpc' = [rpc EXCEPT ![t] = "insert"]
  /\ touch' = NoTouch
  /\ UNCHANGED <<recentCSV, inMemoryCSV, fileOrURL, loaded, calls, entry,
                 ret, loads, lastDone, disturbed, inserter, written>>
  /\ UNCHANGED <<qvars, svars>>

\* Lines 376-378: the entry is created when it is missing and takes the
\* loaded data, whatever rows it had; the guard is released.
Insert(t) ==
  LET id == fileOrURL[t] IN
  /\ rpc[t] = "insert"
  /\ inMemoryCSV' = Moved(inMemoryCSV, id, loaded[t])
  /\ inserter' = [k \in DOMAIN inserter \cup {id} |->
                    IF k = id THEN t ELSE inserter[k]]
  /\ touch' = [op |-> "move", id |-> id,
               shared |-> id \in DOMAIN inMemoryCSV, locks |-> LocksAtMove]
  /\ ret' = [ret EXCEPT ![t] = id]
  /\ lastDone' = Done(entry[t].arg, id, disturbed[t])
  /\ recentCSVMutex' = {}
  /\ rpc' = [rpc EXCEPT ![t] = "returned"]
  /\ UNCHANGED <<recentCSV, fileOrURL, loaded, calls, entry, loads,
                 disturbed, written>>
  /\ UNCHANGED <<qvars, svars>>

\* updateQuery (lines 209-234) on the table loadAndGet returned, with a
\* row matching: the rows are written under their guards.
UpdateEntry(t) ==
  /\ rpc[t] = "returned"
  /\ ret[t] \in DOMAIN inMemoryCSV
  /\ inMemoryCSV' = [inMemoryCSV EXCEPT ![ret[t]] = Updated]
  /\ written' = [written EXCEPT ![ret[t]] = Updated]
  /\ touch' = [op |-> "update", id |-> ret[t], shared |-> TRUE,
               locks |-> LocksAtUpdate]
  /\ UNCHANGED <<recentCSV, recentCSVMutex, rpc, fileOrURL, loaded, calls,
                 entry, ret, loads, lastDone, disturbed, inserter>>
  /\ UNCHANGED <<qvars, svars>>

\* saveQuery (lines 382-391): throws without a local path to write to
\* (line 384) or without an entry for it (at, line 389); otherwise the
\* rows of the entry are written out.
Save(t) ==
  LET saves == /\ recentCSV # ""
               /\ ~IsURL(recentCSV)
               /\ recentCSV \in DOMAIN inMemoryCSV
  IN
  /\ Outside(t)
  /\ touch' = IF saves
                THEN [op |-> "save", id |-> recentCSV, shared |-> TRUE,
                      locks |-> LocksAtSave]
                ELSE NoTouch
  /\ UNCHANGED <<recentCSV, inMemoryCSV, recentCSVMutex, rpc, fileOrURL,
                 loaded, calls, entry, ret, loads, lastDone, disturbed, inserter,
                 written>>
  /\ UNCHANGED <<qvars, svars>>

\* One step of resolver t.
ResolverStep(t) ==
  \/ \E id \in Identifiers \cup {""} : Call(t, id)
  \/ LockLookup(t)
  \/ Lookup(t)
  \/ LoadReturns(t)
  \/ LoadThrows(t)
  \/ LockInsert(t)
  \/ Insert(t)

\* One step of a query of resolver t on the table it resolved.
TableStep(t) ==
  \/ UpdateEntry(t)
  \/ Save(t)

\* The executor before any query has run: a table, and one parsed query
\* per thread, about to be executed.
QueryInit ==
  /\ csv \in Tables
  /\ csv0 = csv
  /\ rowMutex = [i \in 1..Len(csv) |-> {}]
  /\ csvMutex = {}
  /\ csvCondVar = {}
  /\ query \in [Threads -> Queries]
  /\ \A t, u \in Threads : t < u => QueryIndex(query[t]) <= QueryIndex(query[u])
  /\ pc = [t \in Threads |-> "start"]
  /\ colNames = [t \in Threads |-> query[t].colNames]
  /\ mustWait = [t \in Threads |-> query[t].mustWait]
  /\ rowCount = [t \in Threads |-> 0]
  /\ rowText = [t \in Threads |-> ""]
  /\ it = [t \in Threads |-> 1]
  /\ inLoop = [t \in Threads |-> FALSE]
  /\ os = [t \in Threads |-> ""]
  /\ col = [t \in Threads |-> 0]
  /\ before = [t \in Threads |-> <<>>]
  /\ seen = [t \in Threads |-> [i \in 1..Len(csv) |-> <<>>]]
  /\ lastWriter = [i \in 1..Len(csv) |-> {}]

\* The executor before any query has run, for the given threads and the
\* given assignments of queries to them.
QueryStart(running, assignments) ==
  /\ csv \in Tables
  /\ csv0 = csv
  /\ rowMutex = [i \in 1..Len(csv) |-> {}]
  /\ csvMutex = {}
  /\ csvCondVar = {}
  /\ query \in assignments
  /\ pc = [t \in running |-> "start"]
  /\ colNames = [t \in running |-> query[t].colNames]
  /\ mustWait = [t \in running |-> query[t].mustWait]
  /\ rowCount = [t \in running |-> 0]
  /\ rowText = [t \in running |-> ""]
  /\ it = [t \in running |-> 1]
  /\ inLoop = [t \in running |-> FALSE]
  /\ os = [t \in running |-> ""]
  /\ col = [t \in running |-> 0]
  /\ before = [t \in running |-> <<>>]
  /\ seen = [t \in running |-> [i \in 1..Len(csv) |-> <<>>]]
  /\ lastWriter = [i \in 1..Len(csv) |-> {}]

\* No query runs.
QueryIdle ==
  /\ csv = <<>>
  /\ csv0 = <<>>
  /\ rowMutex = <<>>
  /\ csvMutex = {}
  /\ csvCondVar = {}
  /\ query = <<>>
  /\ pc = <<>>
  /\ colNames = <<>>
  /\ mustWait = <<>>
  /\ rowCount = <<>>
  /\ rowText = <<>>
  /\ it = <<>>
  /\ inLoop = <<>>
  /\ os = <<>>
  /\ col = <<>>
  /\ before = <<>>
  /\ seen = <<>>
  /\ lastWriter = <<>>

\* The server is not running.
ServerIdle ==
  /\ maxThr = 0
  /\ numThreads = 0
  /\ serverMutex = {}
  /\ thrCond = {}
  /\ spc = "off"
  /\ accepted = 0
  /\ wpc = <<>>
  /\ request = <<>>
  /\ oss = <<>>
  /\ wos = <<>>
  /\ raised = <<>>
  /\ decrements = <<>>
  /\ notifies = <<>>
  /\ terminated = FALSE

\* No table is resolved.
RegistryIdle ==
  /\ recentCSV = ""
  /\ inMemoryCSV = [id \in {} |-> ""]
  /\ recentCSVMutex = {}
  /\ rpc = <<>>
  /\ fileOrURL = <<>>
  /\ loaded = <<>>
  /\ calls = <<>>
  /\ entry = <<>>
  /\ ret = <<>>
  /\ loads = <<>>
  /\ lastDone = ""
  /\ disturbed = <<>>
  /\ inserter = <<>>
  /\ written = <<>>
  /\ touch = NoTouch

\* ------------------------------------------------------- specifications

Init == QueryInit /\ ServerIdle /\ RegistryIdle

Next == \E t \in Threads : QueryStep(t) \/ SpuriousWake(t)

\* The query executor: the threads' queries running on one table.
Spec == Init /\ [][Next]_vars

\* The same under fair scheduling: a thread that can take a step again
\* and again eventually takes it. A spurious wakeup is never owed.
FairSpec == Spec /\ \A t \in Threads : SF_vars(QueryStep(t))

\* A query that names an unknown column, and any query beside it.
InvalidColumnStart ==
  /\ QueryStart(Threads,
        {f \in [Threads -> InvalidColumnQueries \cup Queries] :
           \E t \in Threads :
             /\ f[t] \in InvalidColumnQueries
             /\ \A u \in Threads \ {t} : t < u /\ f[u] \in Queries})
  /\ ServerIdle
  /\ RegistryIdle

\* The query executor running a query that names an unknown column.
InvalidColumnSpec == InvalidColumnStart /\ [][Next]_vars

TrioNext == \E t \in Trio : QueryStep(t) \/ SpuriousWake(t)

TrioStart == QueryStart(Trio, TrioQueries) /\ ServerIdle /\ RegistryIdle

\* The query executor with three queries running on one table.
TrioSpec == TrioStart /\ [][TrioNext]_vars

ServerNext ==
  \/ ServerStep
  \/ GateSpuriousWake
  \/ \E w \in Workers : WorkerStep(w)

ServerStart == QueryIdle /\ ServerInit /\ RegistryIdle

\* The dispatcher and the workers of the connections it accepts.
ServerSpec == ServerStart /\ [][ServerNext]_vars

RegistryNext == \E t \in Resolvers : ResolverStep(t)

RegistryStart == QueryIdle /\ ServerIdle /\ RegistryInit

\* The registry and the threads that resolve tables in it.
RegistrySpec == RegistryStart /\ [][RegistryNext]_vars

SharingNext == \E t \in Resolvers : ResolverStep(t) \/ TableStep(t)

\* The registry and the threads that resolve tables in it, update the
\* tables they resolved and save them.
SharingSpec == RegistryStart /\ [][SharingNext]_vars

\* ---------------------------------------------------------- query executor

\* The rows of table T that satisfy the where-clause of q (all of them
\* when q has none).
Matching(T, q) ==
  {i \in 1..Len(T) :
     q.whereColIdx = -1 \/ Matches(T[i][q.whereColIdx + 1], q.cond, q.value)}

\* The columns q projects.
Projected(q) == IF q.colNames = <<"*">> THEN ColumnNames ELSE q.colNames

\* The position of a column in the header.
ColumnPosition(name) ==
  CHOOSE k \in 1..Len(ColumnNames) : ColumnNames[k] = name

\* The cells of a line, separated by tabs.
RECURSIVE TabSeparated(_)
TabSeparated(cells) ==
  IF Len(cells) = 0 THEN ""
  ELSE IF Len(cells) = 1 THEN cells[1]
  ELSE TabSeparated(SubSeq(cells, 1, Len(cells) - 1)) \o "\t" \o cells[Len(cells)]

\* The data lines of q on T from row i on.
RECURSIVE ExpectedLines(_, _, _)
ExpectedLines(T, q, i) ==
  IF i > Len(T) THEN ""
  ELSE (IF i \in Matching(T, q)
          THEN TabSeparated([k \in 1..Len(Projected(q)) |->
                 T[i][ColumnPosition(Projected(q)[k])]]) \o "\n"
          ELSE "")
       \o ExpectedLines(T, q, i + 1)

\* What a select q of table T is to write.
ExpectedSelect(T, q) ==
  LET N == Cardinality(Matching(T, q)) IN
  (IF N >= 1 THEN TabSeparated(Projected(q)) \o "\n" ELSE "")
  \o ExpectedLines(T, q, 1)
  \o ToString(N) \o " row(s) selected.\n"

\* What an update q makes of table T.
ExpectedUpdate(T, q) ==
  [i \in 1..Len(T) |->
    IF i \in Matching(T, q)
      THEN [c \in 1..Len(ColumnNames) |->
             IF \E k \in 1..Len(q.colNames) : q.colNames[k] = ColumnNames[c]
               THEN q.values[CHOOSE k \in 1..Len(q.colNames) :
                               q.colNames[k] = ColumnNames[c]]
               ELSE T[i][c]]
      ELSE T[i]]

\* Where a query is between its wait on the table mutex and its re-scan.
AtConditionVariable == {"lock_csv", "wait", "suspended", "relock"}

\* No thread but t runs an update.
OnlySelectsBeside(t) ==
  \A u \in Threads \ {t} : query[u].verb = "select"

\* C2: a select with wait whose predicate a finished update has made
\* true is not left suspended on the condition variable: when every other
\* query is done and a row satisfies the predicate, the select is not
\* suspended (nothing would wake it any more).
WaitSelectNotStranded ==
  \A t \in Threads :
    ~ /\ query[t].verb = "select"
      /\ query[t].mustWait
      /\ pc[t] = "suspended"
      /\ \A u \in Threads \ {t} : pc[u] = "done"
      /\ Matching(csv, query[t]) # {}

\* C3: a query with wait never goes on to write its count line with a
\* count of zero: it leaves the loop only with a count >= 1, and the line
\* it writes carries that count.
WaitNeverReturnsZero ==
  \A t \in Threads :
    query[t].mustWait =>
      /\ pc[t] \in {"emit", "done"} => rowCount[t] >= 1
      /\ pc[t] = "done" =>
           /\ os[t] \notin {"0 row(s) selected.\n", "0 row(s) updated.\n"}
           /\ \E n \in 1..Len(csv) :
                os[t] = (IF query[t].verb = "select"
                           THEN TabSeparated(Projected(query[t])) \o "\n"
                                \o rowText[t]
                           ELSE "")
                        \o ToString(n)
                        \o (IF query[t].verb = "select"
                              THEN " row(s) selected.\n"
                              ELSE " row(s) updated.\n")

\* C3, its case: a query with wait whose predicate no row of the table
\* satisfied at first has returned.
WaitNeverReturnsZeroWitness ==
  \E t \in Threads :
    /\ query[t].mustWait
    /\ pc[t] = "done"
    /\ Matching(csv0, query[t]) = {}

\* C4: a select without wait, with no update running beside it, writes
\* the header if and only if a row matches, then the projected cells of
\* the matching rows in the table's order, then the count line.
SelectOutputExact ==
  \A t \in Threads :
    ( /\ query[t].verb = "select"
      /\ ~query[t].mustWait
      /\ pc[t] = "done"
      /\ OnlySelectsBeside(t) ) =>
        os[t] = ExpectedSelect(csv0, query[t])

\* C4, its cases: with some rows matching and some not; with none.
SelectOutputExactWitness ==
  \E t \in Threads :
    /\ query[t].verb = "select"
    /\ ~query[t].mustWait
    /\ pc[t] = "done"
    /\ OnlySelectsBeside(t)
    /\ Matching(csv0, query[t]) # {}
    /\ Cardinality(Matching(csv0, query[t])) < Len(csv0)

\* C5: a query without wait never comes to the condition variable, and
\* under fair scheduling it returns, whatever the other query does.
NonWaitQueryTerminates ==
  /\ [](\A t \in Threads :
          ~query[t].mustWait => pc[t] \notin AtConditionVariable)
  /\ <>(\A t \in Threads : ~query[t].mustWait => pc[t] = "done")

\* C5, its case: a query without wait has returned while the other
\* query is suspended on the condition variable.
NonWaitQueryTerminatesWitness ==
  \E t, u \in Threads :
    /\ ~query[t].mustWait
    /\ pc[t] = "done"
    /\ pc[u] = "suspended"

\* C6: a step changes a cell only of a row that matches the where-clause
\* of an update, and only in a column the update sets; the rows stay as
\* many; an update with no other update beside it leaves the table as
\* the update of its matching rows and reports their number.
UpdateFrame ==
  /\ [](\A t \in Threads :
          ( /\ query[t].verb = "update"
            /\ pc[t] = "done"
            /\ OnlySelectsBeside(t) ) =>
              /\ csv = ExpectedUpdate(csv0, query[t])
              /\ rowCount[t] = Cardinality(Matching(csv0, query[t]))
              /\ os[t] = ToString(Cardinality(Matching(csv0, query[t])))
                          \o " row(s) updated.\n")
  /\ [][ /\ Len(csv') = Len(csv)
         /\ \A i \in 1..Len(csv) : \A c \in 1..Len(ColumnNames) :
              csv'[i][c] # csv[i][c] =>
                \E t \in Threads :
                  /\ query[t].verb = "update"
                  /\ pc[t] = "row"
                  /\ it[t] = i
                  /\ t \in rowMutex[i]
                  /\ 1 \in Matching(<<before[t]>>, query[t])
                  /\ \E k \in 1..Len(query[t].colNames) :
                       query[t].colNames[k] = ColumnNames[c] ]_vars

\* C6, its case: an update has changed some rows and left others.
UpdateFrameWitness ==
  \E t \in Threads :
    /\ query[t].verb = "update"
    /\ pc[t] = "done"
    /\ OnlySelectsBeside(t)
    /\ csv # csv0
    /\ Matching(csv0, query[t]) # {}
    /\ Cardinality(Matching(csv0, query[t])) < Len(csv0)

\* The two queries are updates whose where-clauses match disjoint sets
\* of rows of the table.
DisjointUpdates ==
  /\ \A t \in Threads : query[t].verb = "update"
  /\ \A t, u \in Threads :
       t # u => Matching(csv0, query[t]) \cap Matching(csv0, query[u]) = {}

\* Thread t is about to lock a row whose mutex thread u holds.
BlockedBy(t, u) ==
  /\ pc[t] = "scan"
  /\ it[t] <= Len(csv)
  /\ rowMutex[it[t]] = {u}

\* C7 as stated: of two updates on disjoint rows neither is ever blocked
\* waiting for a lock the other holds (here even with each of the two
\* matching a row).
DisjointUpdatesNeverBlocked ==
  ( /\ DisjointUpdates
    /\ \A t \in Threads : Matching(csv0, query[t]) # {} ) =>
      \A t, u \in Threads : t # u => ~BlockedBy(t, u)

\* C7 as amended: a thread holds a row's mutex only inside its critical
\* section on that one row (so it never waits while it holds one), and
\* under fair scheduling two updates on disjoint rows that do not wait,
\* or that match a row, both return.
DisjointUpdatesComplete ==
  /\ [](DisjointUpdates =>
          \A t \in Threads : \A i \in 1..Len(csv) :
            t \in rowMutex[i] => pc[t] = "row" /\ it[t] = i)
  /\ <>( ( /\ DisjointUpdates
           /\ \A t \in Threads :
                ~query[t].mustWait \/ Matching(csv0, query[t]) # {} ) =>
          \A t \in Threads : pc[t] = "done" )

\* C7, its case: two updates on disjoint, non-empty sets of rows have
\* both returned.
DisjointUpdatesCompleteWitness ==
  /\ DisjointUpdates
  /\ \A t \in Threads : Matching(csv0, query[t]) # {} /\ pc[t] = "done"
  /\ query[1] # query[2]

\* The rows whose mutex thread t holds.
HeldRows(t) == {i \in 1..Len(csv) : t \in rowMutex[i]}

\* C15: a thread holds the mutex of at most one row, the row its scan is
\* at, and only inside the body of the loop for that row: it holds none
\* when it requests the mutex of the next row, when the scan returns,
\* while it is suspended on the condition variable, and when it is done.
OneRowLockAtATime ==
  \A t \in Threads :
    /\ Cardinality(HeldRows(t)) <= 1
    /\ pc[t] = "row" => HeldRows(t) = {it[t]}
    /\ pc[t] # "row" => HeldRows(t) = {}

\* C15, its case: a thread holds the mutex of the second row inside a
\* re-scan, while the other thread is suspended on the condition
\* variable.
OneRowLockAtATimeWitness ==
  \E t, u \in Threads :
    /\ pc[t] = "row"
    /\ it[t] >= 2
    /\ inLoop[t]
    /\ HeldRows(t) = {it[t]}
    /\ pc[u] = "suspended"

\* C17: every row a select returns, with one update running beside it,
\* is that row as it was before the update or as the update leaves it;
\* the rows of one result need not be of the same instant (the witness).
SelectRowsAreRowStates ==
  \A t, u \in Threads :
    (query[t].verb = "select" /\ query[u].verb = "update") =>
      \A i \in 1..Len(csv) :
        seen[t][i] # <<>> =>
          seen[t][i] \in {csv0[i], ExpectedUpdate(csv0, query[u])[i]}

\* C17, its case: a select has returned a row i as it was before the
\* update and a later row j as the update left it, the update changing
\* both. The update writes row i before row j, so at no instant did the
\* table hold row i unchanged and row j changed.
SelectRowsAreRowStatesWitness ==
  \E t, u \in Threads :
    /\ query[t].verb = "select"
    /\ query[u].verb = "update"
    /\ pc[t] = "done"
    /\ pc[u] = "done"
    /\ \E i, j \in 1..Len(csv) :
         /\ i < j
         /\ csv0[i] # csv[i]
         /\ csv0[j] # csv[j]
         /\ seen[t][i] = csv0[i]
         /\ seen[t][j] = csv[j]
         /\ csv = ExpectedUpdate(csv0, query[u])
         /\ Cardinality(Matching(csv0, query[u])) >= 2

\* The rows whose mutex thread t holds, of the table as it is.
Holding(t) == {i \in DOMAIN rowMutex : t \in rowMutex[i]}

\* C12: the step in which an update returns wakes every thread suspended
\* on the condition variable when the update counted a row, and no
\* thread otherwise; the update has then finished its scan and holds no
\* row, and the step writes no cell. A woken thread leaves the wait only
\* to scan the table again from its first row; in the scan it counts a
\* row exactly when the row satisfied its own where-clause; it leaves
\* the scan past the last row, to return when it counted a row and to
\* wait again otherwise.
BroadcastWakesAllWaiters ==
  [][\A t \in Trio :
       /\ (query[t].verb = "update" /\ pc[t] = "emit" /\ pc'[t] = "done") =>
            /\ it[t] > Len(csv)
            /\ Holding(t) = {}
            /\ csv' = csv
            /\ IF rowCount[t] >= 1
                 THEN /\ csvCondVar' = {}
                      /\ \A u \in csvCondVar : pc'[u] = "relock"
                 ELSE /\ csvCondVar' = csvCondVar
                      /\ \A u \in Trio \ {t} : pc'[u] = pc[u]
       /\ (pc[t] = "relock" /\ pc'[t] # "relock") =>
            pc'[t] = "scan" /\ it'[t] = 1 /\ inLoop'[t] /\ rowCount'[t] = 0
       /\ (inLoop[t] /\ pc[t] = "row" /\ pc'[t] = "scan") =>
            rowCount'[t] = rowCount[t] +
              Cardinality(Matching(<<before[t]>>, query[t]))
       /\ (inLoop[t] /\ pc[t] = "scan" /\ pc'[t] \notin {"scan", "row"}) =>
            /\ it[t] > Len(csv)
            /\ pc'[t] = IF rowCount[t] >= 1 THEN "emit" ELSE "lock_csv"
    ]_vars

\* C12, its case: an update that counted a row has returned and the two
\* threads that were suspended have both been woken.
BroadcastWakesAllWaitersWitness ==
  \E t \in Trio :
    /\ query[t].verb = "update"
    /\ pc[t] = "done"
    /\ rowCount[t] >= 1
    /\ \A u \in Trio \ {t} : pc[u] = "relock"

\* The cells of the columns q sets hold the values q sets them to.
UpdatedBy(row, q) ==
  \A k \in 1..Len(q.colNames) :
    row[ColumnPosition(q.colNames[k])] = q.values[k]

\* C13: in a row that updates have written and none is writing, the
\* columns set by the update that locked the row last all hold the
\* values of that update; and every row a select returns is the row as
\* it was before the queries or as one single update left it.
SameRowUpdatesSerialized ==
  /\ \A i \in 1..Len(csv) : \A w \in lastWriter[i] :
       w \notin rowMutex[i] => UpdatedBy(csv[i], query[w])
  /\ \A t \in Trio :
       query[t].verb = "select" =>
         \A i \in 1..Len(csv) :
           seen[t][i] # <<>> =>
             \/ seen[t][i] = csv0[i]
             \/ \E w \in Trio :
                  query[w].verb = "update" /\ UpdatedBy(seen[t][i], query[w])

\* C13, its case: two updates that set both columns have written the
\* same row one after the other and returned, and the select returned
\* the row as the first of them left it.
SameRowUpdatesSerializedWitness ==
  \E t, u, v \in Trio :
    /\ t # u
    /\ query[t].verb = "update" /\ Len(query[t].colNames) >= 2
    /\ query[u].verb = "update" /\ Len(query[u].colNames) >= 2
    /\ query[v].verb = "select"
    /\ pc[t] = "done" /\ pc[u] = "done" /\ pc[v] = "done"
    /\ \E i \in 1..Len(csv) :
         /\ lastWriter[i] = {u}
         /\ UpdatedBy(csv[i], query[u])
         /\ ~UpdatedBy(csv[i], query[t])
         /\ UpdatedBy(seen[v][i], query[t])
         /\ seen[v][i] # csv0[i]

\* The query names a column the header does not have.
NamesUnknownColumn(q) ==
  \E k \in 1..Len(q.colNames) :
    q.colNames[k] # "*" /\ q.colNames[k] \notin {ColumnNames[c] : c \in 1..Len(ColumnNames)}

\* C18: when a query that names an unknown column has thrown, with no
\* update beside it, every cell of the table is as it was before the
\* query, the query has written nothing to its output, and it has woken
\* no thread.
UnknownColumnNoPartialEffect ==
  \A t \in Threads :
    (NamesUnknownColumn(query[t]) /\ OnlySelectsBeside(t) /\ pc[t] = "threw") =>
      /\ csv = csv0
      /\ os[t] = ""
      /\ \A u \in Threads \ {t} : pc[u] # "relock"

\* ------------------------------------------------------------- dispatcher

\* The workers that have been spawned and have not yet decremented the
\* in-flight counter.
InFlight == {w \in Workers : wpc[w] # "idle" /\ decrements[w] = 0}

\* C1: with maximum concurrency maxThr, at most maxThr workers are ever
\* spawned and not yet finished at the same time.
AdmissionBound == Cardinality(InFlight) <= maxThr

\* C9: no decrement-and-notify of a worker is missed: the dispatcher is
\* never left suspended at the admission gate when the counter satisfies
\* the admission predicate and every worker that could still signal it
\* has finished (from such a state no notification ever comes).
AdmissionWakeupNotMissed ==
  ~ /\ spc = "suspended"
    /\ Admits(numThreads, maxThr)
    /\ \A w \in Workers : wpc[w] \in {"idle", "done"}

\* C10: a worker whose query returned or threw has written its response
\* (the error line after the header when the query threw) before it
\* decrements; it decrements once and signals once, after the decrement;
\* no exception ends the process.
WorkerReleasesSlot ==
  /\ ~terminated
  /\ \A w \in Workers :
       /\ decrements[w] <= 1
       /\ notifies[w] <= decrements[w]
       /\ wpc[w] = "done" => decrements[w] = 1 /\ notifies[w] = 1
       /\ raised[w] # "" => wpc[w] \in {"decr", "notify", "done"}
       /\ (request[w] = "query" /\ wpc[w] \in {"decr", "notify", "done"}) =>
            /\ oss[w] # ""
            /\ wos[w] = HTTPRespHeader(Len(oss[w])) \o oss[w]
            /\ raised[w] # "" => oss[w] = "Error: " \o raised[w] \o "\n"
       /\ decrements[w] = 1 => wpc[w] \in {"notify", "done"}

\* C10, its case: a worker whose query threw has finished.
WorkerReleasesSlotWitness ==
  \E w \in Workers : wpc[w] = "done" /\ raised[w] # "" /\ decrements[w] = 1

\* C19: the in-flight counter is never negative.
CounterNeverNegative == numThreads >= 0

\* --------------------------------------------------------------- registry

\* C8: a loadAndGet whose load failed, with no other resolver active,
\* leaves the loaded tables and the most recently used identifier as
\* they were when it was called.
FailedLoadLeavesRegistry ==
  \A t \in Resolvers :
    (rpc[t] = "threw" /\ \A u \in Resolvers \ {t} : calls[u] = 0) =>
      /\ inMemoryCSV = entry[t].inMemoryCSV
      /\ recentCSV = entry[t].recentCSV

\* C11: a loadAndGet("") that follows a successful loadAndGet(X), X not
\* empty, with no other call during the two or between them, performs
\* no load, does not throw, and returns the entry of X, which existed
\* when it was called.
RecentResolveReturnsSameEntry ==
  \A t \in Resolvers :
    (/\ calls[t] >= 1
     /\ entry[t].arg = ""
     /\ entry[t].last # ""
     /\ ~disturbed[t]) =>
      /\ loads[t] = 0
      /\ rpc[t] \notin {"load", "guard2", "insert", "threw"}
      /\ rpc[t] = "returned" =>
           /\ ret[t] = entry[t].last
           /\ ret[t] \in DOMAIN entry[t].inMemoryCSV

\* C11, its case: a resolver has called loadAndGet("") after the other
\* resolver's loadAndGet(X) and has returned.
RecentResolveReturnsSameEntryWitness ==
  \E t \in Resolvers :
    /\ entry[t].arg = ""
    /\ entry[t].last # ""
    /\ ~disturbed[t]
    /\ rpc[t] = "returned"
    /\ calls[t] = 1

\* Both resolvers' calls loaded identifier X and returned, and no update
\* has written to the entry of X.
BothLoaded(X) ==
  /\ \A t \in Resolvers :
       rpc[t] = "returned" /\ fileOrURL[t] = X /\ loads[t] = 1
  /\ written[X] = ""

\* C16: after two calls that both loaded the same identifier, the
\* registry has the entry of that identifier, holding the data of the
\* call that inserted last, and both calls returned that entry; the
\* registry's map changes only in a step of the thread that holds
\* recentCSVMutex.
ConcurrentMissesLeaveOneEntry ==
  /\ [](\A X \in Identifiers :
          BothLoaded(X) =>
            /\ X \in DOMAIN inMemoryCSV
            /\ inMemoryCSV[X] = loaded[inserter[X]]
            /\ \A t \in Resolvers : ret[t] = X)
  /\ [][(DOMAIN inMemoryCSV' # DOMAIN inMemoryCSV \/ inserter' # inserter) =>
          \E t \in Resolvers :
            recentCSVMutex = {t} /\ rpc[t] = "insert" /\ rpc'[t] # "insert"]_vars

\* C16, its case: both calls loaded the same identifier, each different
\* data, and both have returned.
ConcurrentMissesLeaveOneEntryWitness ==
  \E X \in Identifiers :
    /\ BothLoaded(X)
    /\ \A t, u \in Resolvers : t # u => loaded[t] # loaded[u]

\* C14: a step that reads or writes the rows of a table the registry
\* holds is taken with the rows' mutexes held.
RowAccessUnderRowMutex ==
  (touch.op # "none" /\ touch.shared) => "rowMutex" \in touch.locks

\* C20: what the last update of an entry wrote is what the entry holds.
UpdatesSurviveResolves ==
  \A id \in DOMAIN inMemoryCSV :
    written[id] # "" => inMemoryCSV[id] = written[id]

====
